---- MODULE Spec2Model ----
(***************************************************************************)
(* Model of the two pull-request automations of changelog-agent:           *)
(*   scripts/gen_changelog.py  - one changelog bullet per pull request     *)
(*   scripts/update_agents.py  - refresh of the AGENTS.md documents        *)
(* Text is a sequence of characters (one-character strings), so that the   *)
(* substring tests, str.replace and the regular expressions of the scripts *)
(* are computed on the characters, as Python computes them.                *)
(***************************************************************************)
EXTENDS Integers, Sequences, FiniteSets, TLC

VARIABLES
    pc,        \* gen_changelog.py: where the script is ("idle" when it is not run)
    pr,        \* the pull request the run is about: [number, author, title, files]
    scopeGuess,\* scope_guess, line 26
    genKind,   \* what the generator call did in this run
    entry,     \* `parsed` as line 104 leaves it, before the references are normalized
    parsed,    \* the script's variable `parsed`
    chlog,     \* CHANGELOG.md on disk: [exists, text]
    pre,       \* CHANGELOG.md as it was when the run started
    exitCode,  \* exit status of the run, once pc = "exited"
    wrote,     \* whether this run has written CHANGELOG.md
    firstDoc   \* CHANGELOG.md as the first run that wrote it left it: [set, text]

cvars == <<pc, pr, scopeGuess, genKind, entry, parsed, chlog, pre, exitCode, wrote, firstDoc>>

VARIABLES
    apc,             \* update_agents.py: where main is ("idle" when it is not run)
    mode,            \* MODE, line 26
    required,        \* ALWAYS_INCLUDE, lines 29-35
    changed,         \* the changed files of the pull request, each with its directory
    fs,              \* the AGENTS.md of every directory: [exists, text]
    mapping,         \* the keys of `mapping`, in the order the loop visits them
    pos,             \* the position of the loop in mapping
    anyApplied,      \* any_applied
    report,          \* report
    overwritten,     \* the AGENTS.md files this run has written
    reportWritten,   \* whether this run has written .agents_update_report.json
    sentinelWritten, \* whether this run has written .agents_updates_applied
    aExit,           \* exit status of the run, once apc = "exited"
    failedAt,        \* the call that raised and ended main ("none" when none did)
    posted,          \* the comments this run has posted
    commentFailed,   \* whether a post_pr_comment call of this run has raised
    upd              \* the last call of llm_update: its inputs and its result

avars == <<apc, mode, required, changed, fs, mapping, pos, anyApplied, report, overwritten,
           reportWritten, sentinelWritten, aExit, failedAt, posted, commentFailed, upd>>

vars == <<cvars, avars>>

(***************************************************************************)
(* Python's str operations, on sequences of characters                     *)
(***************************************************************************)
Min(S) == CHOOSE x \in S : \A y \in S : x <= y

Digits == <<"0","1","2","3","4","5","6","7","8","9">>
Lower == <<"a","b","c","d","e","f","g","h","i","j","k","l","m",
           "n","o","p","q","r","s","t","u","v","w","x","y","z">>
Upper == <<"A","B","C","D","E","F","G","H","I","J","K","L","M",
           "N","O","P","Q","R","S","T","U","V","W","X","Y","Z">>

Range(f) == {f[i] : i \in DOMAIN f}

IndexOf(seq, c) == CHOOSE i \in DOMAIN seq : seq[i] = c

\* ord(c) for the characters that occur in references
Ord(c) ==
    CASE c \in Range(Digits) -> 47 + IndexOf(Digits, c)
      [] c \in Range(Upper) -> 64 + IndexOf(Upper, c)
      [] c \in Range(Lower) -> 96 + IndexOf(Lower, c)
      [] c = "\n" -> 10
      [] c = " " -> 32
      [] c = "#" -> 35
      [] c = "@" -> 64
      [] c = "_" -> 95

\* the characters \w matches (ASCII)
WordChars == Range(Digits) \cup Range(Upper) \cup Range(Lower) \cup {"_"}

\* the characters str.strip() removes
Whitespace == {" ", "\n", "\t", "\r"}

\* p occurs in s at index i
StartsAt(s, p, i) ==
    /\ i >= 1
    /\ i + Len(p) - 1 <= Len(s)
    /\ SubSeq(s, i, i + Len(p) - 1) = p

Occurrences(s, p) == {i \in 1..(Len(s) - Len(p) + 1) : StartsAt(s, p, i)}

\* `p in s`
Contains(s, p) == Occurrences(s, p) # {}

\* s.find(p, from), 1-based; 0 when there is none
Find(s, p, from) ==
    LET O == {i \in Occurrences(s, p) : i >= from}
    IN  IF O = {} THEN 0 ELSE Min(O)

RECURSIVE Replace(_, _, _)
\* s.replace(old, new): every non-overlapping occurrence, left to right
Replace(s, old, new) ==
    LET i == Find(s, old, 1)
    IN  IF i = 0 THEN s
        ELSE SubSeq(s, 1, i - 1) \o new
                 \o Replace(SubSeq(s, i + Len(old), Len(s)), old, new)

RECURSIVE LStrip(_)
LStrip(s) == IF s # <<>> /\ Head(s) \in Whitespace THEN LStrip(Tail(s)) ELSE s

RECURSIVE RStrip(_)
RStrip(s) ==
    IF s # <<>> /\ s[Len(s)] \in Whitespace THEN RStrip(SubSeq(s, 1, Len(s) - 1)) ELSE s

\* s.strip()
Strip(s) == RStrip(LStrip(s))

\* s[:n]
Take(s, n) == SubSeq(s, 1, IF Len(s) < n THEN Len(s) ELSE n)

RECURSIVE Dec(_)
\* str(n) of a natural number
Dec(n) == IF n < 10 THEN <<Digits[n + 1]>> ELSE Dec(n \div 10) \o <<Digits[(n % 10) + 1]>>

RECURSIVE Join(_, _)
\* sep.join(parts)
Join(sep, parts) ==
    IF parts = <<>> THEN <<>>
    ELSE IF Len(parts) = 1 THEN parts[1]
    ELSE parts[1] \o sep \o Join(sep, Tail(parts))

RECURSIVE StrLess(_, _)
\* a < b on str: by code point, a proper prefix first
StrLess(a, b) ==
    IF b = <<>> THEN FALSE
    ELSE IF a = <<>> THEN TRUE
    ELSE IF Head(a) = Head(b) THEN StrLess(Tail(a), Tail(b))
    ELSE Ord(Head(a)) < Ord(Head(b))

RECURSIVE Sorted(_)
\* sorted(S) of a set of str
Sorted(S) ==
    IF S = {} THEN <<>>
    ELSE LET m == CHOOSE x \in S : \A y \in S \ {x} : StrLess(x, y)
         IN  <<m>> \o Sorted(S \ {m})

(***************************************************************************)
(* gen_changelog.py: the texts of the script                               *)
(***************************************************************************)
\* the skeleton written when CHANGELOG.md does not exist (lines 115-122)
Skeleton ==
    <<"#"," ","C","h","a","n","g","e","l","o","g","\n","\n","A","l","l"," ","n","o","t","a","b",
      "l","e"," ","c","h","a","n","g","e","s"," ","t","o"," ","t","h","i","s"," ","p","r","o",
      "j","e","c","t"," ","w","i","l","l"," ","b","e"," ","d","o","c","u","m","e","n","t","e",
      "d"," ","i","n"," ","t","h","i","s"," ","f","i","l","e",".","\n","\n","T","h","e"," ","f",
      "o","r","m","a","t"," ","i","s"," ","b","a","s","e","d"," ","o","n"," ","[","K","e","e",
      "p"," ","a"," ","C","h","a","n","g","e","l","o","g","]","(","h","t","t","p","s",":","/",
      "/","k","e","e","p","a","c","h","a","n","g","e","l","o","g",".","c","o","m","/","e","n",
      "/","1",".","1",".","0","/",")",","," ","a","n","d"," ","t","h","i","s"," ","p","r","o",
      "j","e","c","t"," ","a","d","h","e","r","e","s"," ","t","o"," ","[","S","e","m","a","n",
      "t","i","c"," ","V","e","r","s","i","o","n","i","n","g","]","(","h","t","t","p","s",":",
      "/","/","s","e","m","v","e","r",".","o","r","g","/","s","p","e","c","/","v","2",".","0",
      ".","0",".","h","t","m","l",")",".","\n","\n","#","#"," ","[","U","n","r","e","l","e","a",
      "s","e","d","]","\n","\n">>

Unreleased == <<"#","#"," ","[","U","n","r","e","l","e","a","s","e","d","]">>
UnreleasedLine == Unreleased \o <<"\n">>
H3 == <<"#","#","#"," ">>
Added == <<"A","d","d","e","d">>
Fixed == <<"F","i","x","e","d">>
Changed == <<"C","h","a","n","g","e","d">>
\* the two code points of the warning sign are one element each
Breaking == <<"U+26A0","U+FE0F"," ","B","R","E","A","K","I","N","G">>
MigrationLead == <<" "," "," ","-"," ","*","*","M","i","g","r","a","t","i","o","n",":","*","*"," ">>

\* title.strip()[:200], line 99
TitleCap == 200

\* "summary": {"type": "string", "maxLength": 240}, line 55
SummaryMax == 240

\* the enum of "category", line 54
Categories ==
    {Added, Changed, Fixed,
     <<"D","e","p","r","e","c","a","t","e","d">>, <<"R","e","m","o","v","e","d">>,
     <<"S","e","c","u","r","i","t","y">>}

Keys == {"category", "summary", "scope", "breaking", "migration", "references"}
Required == {"category", "summary", "breaking", "references"}

(***************************************************************************)
(* The value json.loads returns, as far as the script reads it.  A JSON    *)
(* object is a dict with the keys in `has`; summaryIsStr = FALSE stands    *)
(* for a summary that is a JSON number other than 0; isDict = FALSE for a  *)
(* JSON array, string, number or null.                                     *)
(***************************************************************************)
Dict(has, category, summary, summaryIsStr, scope, breaking, migration, references) ==
    [isDict |-> TRUE, has |-> has, category |-> category, summary |-> summary,
     summaryIsStr |-> summaryIsStr, scope |-> scope, breaking |-> breaking,
     migration |-> migration, references |-> references]

NonObject ==
    [isDict |-> FALSE, has |-> {}, category |-> <<>>, summary |-> <<>>,
     summaryIsStr |-> TRUE, scope |-> <<>>, breaking |-> FALSE,
     migration |-> <<>>, references |-> <<>>]

\* parsed.get(k, d)
Get(p, k, d) == IF k \in p.has THEN p[k] ELSE d

\* the schema of lines 48-64, which the script hands to the generator and never checks itself
Conforms(p) ==
    /\ p.isDict
    /\ Required \subseteq p.has
    /\ p.category \in Categories
    /\ p.summaryIsStr
    /\ Len(p.summary) <= SummaryMax

\* the except branch, lines 97-104
Fallback(title, scope) ==
    Dict(Keys, Changed, Take(Strip(title), TitleCap), TRUE, scope, FALSE, <<>>, <<>>)

\* top_dirs, line 25: the part before the first "/" of every path that has one
TopDirs(files) ==
    LET withDir == SelectSeq(files, LAMBDA f : Contains(f, <<"/">>))
    IN  [i \in DOMAIN withDir |-> SubSeq(withDir[i], 1, Find(withDir[i], <<"/">>, 1) - 1)]

Count(seq, x) == Cardinality({i \in DOMAIN seq : seq[i] = x})

\* line 26: max(set(top_dirs), key=top_dirs.count) is one of the most frequent
\* directories (which one, on a tie, is the set's iteration order), "" without any
ScopeGuesses(files) ==
    LET t == TopDirs(files)
    IN  IF t = <<>> THEN {<<>>}
        ELSE {d \in Range(t) : \A e \in Range(t) : Count(t, e) <= Count(t, d)}

\* "#<PR_NUMBER>" and "@<author>", line 107
PrRef(n) == <<"#">> \o Dec(n)
AuthorRef(a) == <<"@">> \o a

\* re.search(rf"(#){PR_NUMBER}\b", text), line 127: \b after the last digit holds
\* at the end of the text and before a character that is not a word character
GuardHit(text, n) ==
    \E i \in Occurrences(text, PrRef(n)) :
        LET e == i + Len(PrRef(n))
        IN  e > Len(text) \/ text[e] \notin WordChars

\* lines 106-108
\* the references, the PR and the author appended as they come
NormalizeRefsAppended(p, n, author) ==
    [p EXCEPT !.references = Get(p, "references", <<>>) \o <<PrRef(n), AuthorRef(author)>>,
              !.has = @ \cup {"references"}]

NormalizeRefs(p, n, author) ==
    [p EXCEPT !.references =
                  Sorted(Range(Get(p, "references", <<>>)) \cup {PrRef(n), AuthorRef(author)}),
              !.has = @ \cup {"references"}]

\* ensure_section, lines 130-134
ensure_section(txt, header) ==
    LET marker == <<"\n">> \o H3 \o header \o <<"\n">>
    IN  IF ~Contains(txt, marker)
        THEN Replace(txt, UnreleasedLine,
                     UnreleasedLine \o <<"\n">> \o H3 \o header \o <<"\n", "\n">>)
        ELSE txt

\* bullet_parts and bullet, lines 139-146 (summary is a str here)
Bullet(p) ==
    LET scope == IF Get(p, "scope", <<>>) # <<>>
                 THEN << <<"[">> \o p.scope \o <<"]">> >> ELSE <<>>
        brk == IF Get(p, "breaking", FALSE) THEN <<Breaking>> ELSE <<>>
        parts == scope \o brk \o <<Get(p, "summary", <<>>)>>
    IN  <<" ", "-", " ">> \o Join(<<" ">>, SelectSeq(parts, LAMBDA x : x # <<>>))

\* refs_str and insertion, lines 147-151
Insertion(p) ==
    Bullet(p) \o <<" ", "(">> \o Join(<<",", " ">>, p.references) \o <<")", "\n">>
        \o (IF Get(p, "breaking", FALSE) /\ Get(p, "migration", <<>>) # <<>>
            THEN MigrationLead \o p.migration \o <<"\n">> ELSE <<>>)

\* the end of the match of rf"(## \[Unreleased\][\s\S]*?### {re.escape(category)}\n)",
\* lines 153-154 (category holds no character re.escape changes): the leftmost
\* "## [Unreleased]" and the nearest "### <category>\n" after it; 0 without a match
MatchEnd(text, category) ==
    LET head == H3 \o category \o <<"\n">>
        i == Find(text, Unreleased, 1)
        j == IF i = 0 THEN 0 ELSE Find(text, head, i + Len(Unreleased))
    IN  IF j = 0 THEN 0 ELSE j + Len(head) - 1

\* lines 155-159
\* the insertion appended to the document
InsertAtEnd(text, category, insertion) == text \o insertion

Insert(text, category, insertion) ==
    LET idx == MatchEnd(text, category)
    IN  IF idx > 0
        THEN SubSeq(text, 1, idx) \o insertion \o SubSeq(text, idx + 1, Len(text))
        ELSE Replace(text, UnreleasedLine,
                     UnreleasedLine \o <<"\n">> \o H3 \o category \o <<"\n">>
                         \o insertion \o <<"\n">>)

\* " ".join raises TypeError on a part that is not a str, line 146
JoinRaises(p) == "summary" \in p.has /\ ~p.summaryIsStr

NoFile == [exists |-> FALSE, text |-> <<>>]
File(text) == [exists |-> TRUE, text |-> text]

\* lines 106-161: what the run leaves on disk, its exit status, `parsed`, and
\* whether it wrote the file (the skeleton of line 115 or the result of line 161)
MergeResult(file, p, n, author) ==
    IF ~p.isDict
    THEN \* line 106: AttributeError, the value has no .get
         [file |-> file, exit |-> 1, parsed |-> p, wrote |-> FALSE]
    ELSE LET q == NormalizeRefs(p, n, author)
             onDisk == IF file.exists THEN file ELSE File(Skeleton)
             text == onDisk.text
             category == Get(q, "category", Changed)
         IN  IF GuardHit(text, n)
             THEN \* line 128
                  [file |-> onDisk, exit |-> 0, parsed |-> q, wrote |-> ~file.exists]
             ELSE IF JoinRaises(q)
             THEN [file |-> onDisk, exit |-> 1, parsed |-> q, wrote |-> ~file.exists]
             ELSE [file |-> File(Insert(ensure_section(text, category), category,
                                        Insertion(q))),
                   exit |-> 0, parsed |-> q, wrote |-> TRUE]

(***************************************************************************)
(* The inputs of gen_changelog.py                                          *)
(***************************************************************************)
\* the longest changelog a run starts from, in lines
MaxLines == 3

\* a title longer than the 200 characters the fallback keeps
LongTitle == [i \in 1..(TitleCap + 5) |-> IF i = 1 THEN "T" ELSE "t"]

\* the pull requests: #1 (its token is a prefix of #12) and #12
PRs ==
    {[number |-> 1, author |-> <<"a","l">>,
      title |-> <<" ","F","i","x"," ","i","t","\n">>,
      files |-> << <<"u","i","/","a">>, <<"a","p","i","/","b">>, <<"u","i","/","c">>, <<"x">> >>],
     [number |-> 12, author |-> <<"b","o">>,
      title |-> LongTitle,
      files |-> << <<"R","E","A","D","M","E">> >>]}

OldBullet == <<" ","-"," ","o","l","d"," ","(","#","1","2",")","\n">>
ReleasedLine == <<"#","#"," ","[","1",".","0","]","\n">>

\* the lines an existing changelog is made of
Pieces ==
    {UnreleasedLine, ReleasedLine, H3 \o Added \o <<"\n">>, H3 \o Fixed \o <<"\n">>,
     OldBullet, <<"\n">>}

RECURSIVE Docs(_)
\* the texts of at most n lines
Docs(n) == IF n = 0 THEN {<<>>}
           ELSE LET shorter == Docs(n - 1)
                IN  shorter \cup {d \o l : d \in shorter, l \in Pieces}

Ref7 == <<"#","7">>
Scope1 == <<"p","a","r","s","e","r">>
Summary1 == <<"F","i","x"," ","c","r","a","s","h"," ","o","n"," ","e","m","p","t","y"," ","i",
              "n","p","u","t">>
Migration1 == <<"C","a","l","l"," ","i","n","i","t","P","a","r","s","e","r","(",")"," ","b","e",
                "f","o","r","e"," ","u","s","e">>

\* JSON the generator may return that is not a ChangelogEntry
Malformed ==
    {NonObject,
     Dict(Keys, Fixed, <<>>, FALSE, <<>>, FALSE, <<>>, <<Ref7>>),
     Dict({"summary", "breaking"}, <<>>, Summary1, TRUE, <<>>, FALSE, <<>>, <<>>)}

\* what one call of the generator does: raise, return text that is not JSON, or return JSON
Outcomes(values) ==
    {[kind |-> "raise", value |-> NonObject], [kind |-> "notjson", value |-> NonObject]}
        \cup {[kind |-> "json", value |-> v] : v \in values \cup Malformed}

\* the entries of the runs over existing changelogs
FewEntries ==
    {Dict(Keys, c, Summary1, TRUE, Scope1, b, IF b THEN Migration1 ELSE <<>>, <<Ref7>>) :
        c \in {Added, Fixed}, b \in BOOLEAN}

\* the entries of the runs over a fresh changelog
AllEntries ==
    {Dict(Keys, c, s, TRUE, sc, b, m, r) :
        c \in {Added, Fixed}, s \in {<<>>, Summary1}, sc \in {<<>>, Scope1},
        b \in BOOLEAN, m \in {<<>>, Migration1},
        r \in {<<>>, <<Ref7>>, <<Ref7, PrRef(1), Ref7>>}}

(***************************************************************************)
(* gen_changelog.py: one run is Fetch, Generate, Merge; the workflow runs  *)
(* the script again on every push to the pull request (Retrigger)          *)
(***************************************************************************)
\* the state of the script before it starts (at: "start"), or when it is not run
InitRun(at) ==
    /\ pc = at
    /\ scopeGuess = <<>>
    /\ genKind = "none"
    /\ entry = NonObject
    /\ parsed = NonObject
    /\ pre = chlog
    /\ exitCode = 0
    /\ wrote = FALSE
    /\ firstDoc = [set |-> FALSE, text |-> <<>>]

\* lines 18-26; gh_get raises on a failed request and nothing catches it
Fetch ==
    /\ pc = "start"
    /\ \E ok \in BOOLEAN :
          IF ok
          THEN /\ \E g \in ScopeGuesses(pr.files) : scopeGuess' = g
               /\ pc' = "fetched"
               /\ exitCode' = exitCode
          ELSE /\ pc' = "exited"
               /\ exitCode' = 1
               /\ scopeGuess' = scopeGuess
    /\ UNCHANGED <<pr, genKind, entry, parsed, chlog, pre, wrote, firstDoc, avars>>

\* lines 89-104
Generate(outcomes) ==
    /\ pc = "fetched"
    /\ \E g \in outcomes :
          /\ parsed' = IF g.kind = "json" THEN g.value ELSE Fallback(pr.title, scopeGuess)
          /\ entry' = parsed'
          /\ genKind' = IF g.kind # "json" THEN g.kind
                        ELSE IF ~g.value.isDict THEN "nonobject"
                        ELSE IF Conforms(g.value) THEN "valid" ELSE "nonconforming"
    /\ pc' = "generated"
    /\ UNCHANGED <<pr, scopeGuess, chlog, pre, exitCode, wrote, firstDoc, avars>>

\* lines 106-161
Merge ==
    /\ pc = "generated"
    /\ LET r == MergeResult(chlog, parsed, pr.number, pr.author)
       IN  /\ chlog' = r.file
           /\ parsed' = r.parsed
           /\ exitCode' = r.exit
           /\ wrote' = r.wrote
           /\ firstDoc' = IF ~firstDoc.set /\ r.wrote
                          THEN [set |-> TRUE, text |-> r.file.text]
                          ELSE firstDoc
    /\ pc' = "exited"
    /\ UNCHANGED <<pr, scopeGuess, genKind, entry, pre, avars>>

\* the next run of the script for the same pull request
Retrigger ==
    /\ pc = "exited"
    /\ pc' = "start"
    /\ scopeGuess' = <<>>
    /\ genKind' = "none"
    /\ entry' = NonObject
    /\ parsed' = NonObject
    /\ pre' = chlog
    /\ exitCode' = 0
    /\ wrote' = FALSE
    /\ UNCHANGED <<pr, chlog, firstDoc, avars>>

(***************************************************************************)
(* update_agents.py                                                        *)
(***************************************************************************)
\* the summary of the except branch, line 178
Notice ==
    <<"N","o"," ","L","L","M"," ","c","h","a","n","g","e","s",";",
      " ","e","n","f","o","r","c","e","d"," ","r","e","q","u","i","r","e","d",
      " ","b","l","o","c","k",".">>
\* line 217
NoChanges == <<"N","o"," ","c","h","a","n","g","e","s">>
\* str(None)
NoneStr == <<"N","o","n","e">>

EndsWith(s, p) == Len(p) <= Len(s) /\ SubSeq(s, Len(s) - Len(p) + 1, Len(s)) = p

\* the block appended without the test for its presence
AppendBlock(text, req) ==
    IF Strip(req) = <<>> THEN text
    ELSE text \o <<"\n", "\n">> \o Strip(req) \o <<"\n">>

\* ensure_always_include_block, lines 100-107
ensure_always_include_block(text, req) ==
    IF Strip(req) = <<>> THEN text
    ELSE IF Contains(text, Strip(req)) THEN text
    ELSE LET sep == IF EndsWith(text, <<"\n">>) THEN <<"\n", "\n">> ELSE <<"\n", "\n">>
         IN  text \o sep \o Strip(req) \o <<"\n">>

(***************************************************************************)
(* The value json.loads returns in llm_update: a JSON object with the keys *)
(* in `has` (contentNull: "updated_content" is null), or something else.   *)
(***************************************************************************)
Update(has, content, contentNull, summary) ==
    [isDict |-> TRUE, has |-> has, updated_content |-> content,
     contentNull |-> contentNull, summary |-> summary]

NoUpdate ==
    [isDict |-> FALSE, has |-> {}, updated_content |-> <<>>, contentNull |-> FALSE,
     summary |-> <<>>]

\* lines 166-178: whether the try block raises (the call, json.loads, or KeyError)
UpdateRaises(g) ==
    \/ g.kind # "json"
    \/ g.value.isDict /\ "updated_content" \notin g.value.has

\* lines 146-182: (content, summary) for the content on disk and the generator's outcome
llm_update(file, g, req) ==
    LET current == IF file.exists THEN file.text ELSE <<>>
        v == g.value
        content == IF UpdateRaises(g) THEN current
                   ELSE IF v.isDict
                        THEN (IF v.contentNull THEN NoneStr ELSE v.updated_content)
                        ELSE <<>>
        summary == IF UpdateRaises(g) THEN Notice
                   ELSE IF v.isDict /\ "summary" \in v.has THEN v.summary ELSE <<>>
        working == IF content # <<>> THEN content ELSE current
    IN  [content |-> ensure_always_include_block(working, req), summary |-> summary,
         working |-> working, current |-> current,
         raises |-> UpdateRaises(g)]

\* the directories: one below the workspace root, the root, and the directory above it
Chain(dir) == IF dir = "sub" THEN <<"sub", "root", "outside">> ELSE <<"root", "outside">>

RECURSIVE AddKeys(_, _)
\* mapping.setdefault(k, ...) for every k of ks, in order
AddKeys(m, ks) ==
    IF ks = <<>> THEN m
    ELSE AddKeys(IF Head(ks) \in Range(m) THEN m ELSE Append(m, Head(ks)), Tail(ks))

RECURSIVE MapPaths(_, _, _)
\* map_changed_paths_to_agents, lines 61-97: every existing AGENTS.md of the
\* directory of a changed file and of all its parents, else the root's
MapPaths(files, disk, m) ==
    IF files = <<>> THEN m
    ELSE LET found == SelectSeq(Chain(Head(files)), LAMBDA d : disk[d].exists)
         IN  MapPaths(Tail(files), disk,
                      AddKeys(m, IF found = <<>> THEN <<"root">> ELSE found))

\* agents_path.relative_to(root) raises ValueError for a path that is not below root
RelativeToRaises(d) == d = "outside"

(***************************************************************************)
(* The inputs of update_agents.py                                          *)
(***************************************************************************)
\* the longest AGENTS.md and the longest proposed content, in characters
MaxText == 3

RECURSIVE Texts(_)
Texts(n) == IF n = 0 THEN {<<>>}
            ELSE LET shorter == Texts(n - 1)
                 IN  shorter \cup {t \o <<c>> : t \in shorter, c \in {"x", "a", "\n"}}

\* ALWAYS_INCLUDE: a word, the content of a file that ends with a newline, two
\* paragraphs, and the empty setting
Blocks == {<<"x">>, <<"x", "\n">>, <<"x", "\n", "\n", "x">>, <<>>}

\* what one call of the generator does in llm_update
UpdateOutcomes(contents) ==
    {[kind |-> "raise", value |-> NoUpdate], [kind |-> "notjson", value |-> NoUpdate],
     [kind |-> "json", value |-> NoUpdate],
     [kind |-> "json", value |-> Update({"summary"}, <<>>, FALSE, <<"s">>)],
     [kind |-> "json", value |-> Update({"updated_content", "summary"}, <<>>, TRUE, <<"s">>)]}
        \cup {[kind |-> "json",
               value |-> Update({"updated_content", "summary"}, c, FALSE, <<"s">>)] :
                  c \in contents}

NoCall ==
    [content |-> <<>>, summary |-> <<>>, working |-> <<>>, current |-> <<>>,
     raises |-> FALSE]

\* the state of main before it starts (at: "start"), or when it is not run
InitMain(at) ==
    /\ apc = at
    /\ mapping = <<>>
    /\ pos = 1
    /\ anyApplied = FALSE
    /\ report = <<>>
    /\ overwritten = {}
    /\ reportWritten = FALSE
    /\ sentinelWritten = FALSE
    /\ aExit = 0
    /\ failedAt = "none"
    /\ posted = 0
    /\ commentFailed = FALSE
    /\ upd = NoCall

\* the changelog pipeline is not running
IdleChangelog ==
    /\ pr \in {p \in PRs : p.number = 1}
    /\ chlog = NoFile
    /\ InitRun("idle")

\* the AGENTS.md files of the runs of main
FewTexts == {<<"a", "\n">>, <<"a", "\n", "\n", "x", "\n">>, <<"b">>}

InitAgents ==
    /\ mode \in {"suggest", "apply"}
    /\ required = <<"x">>
    /\ changed \in {<<>>, <<"sub">>, <<"root">>, <<"root", "sub">>}
    /\ fs \in [{"sub", "root", "outside"} ->
                  {NoFile, File(<<"a", "\n">>), File(<<"a", "\n", "\n", "x", "\n">>)}]
    /\ InitMain("start")
    /\ IdleChangelog

(***************************************************************************)
(* update_agents.py: main and the handler of lines 265-271                 *)
(***************************************************************************)
\* the exception re-raised in either mode
ExceptReraised(call) ==
    /\ apc' = "exited"
    /\ failedAt' = call
    /\ aExit' = 1

\* lines 267-271: the exception is printed, and raised again in apply mode only
Except(call) ==
    /\ apc' = "exited"
    /\ failedAt' = call
    /\ aExit' = IF mode = "apply" THEN 1 ELSE 0

\* lines 192-205: fetch_pr_context, the two early returns and the mapping
Start ==
    /\ apc = "start"
    /\ \E ok \in BOOLEAN :
          IF ~ok
          THEN Except("fetch_pr_context") /\ UNCHANGED mapping
          ELSE IF changed = <<>>
          THEN apc' = "exited" /\ aExit' = 0 /\ UNCHANGED <<mapping, failedAt>>
          ELSE /\ mapping' = MapPaths(changed, fs, <<>>)
               /\ apc' = "loop"
               /\ UNCHANGED <<aExit, failedAt>>
    /\ UNCHANGED <<mode, required, changed, fs, pos, anyApplied, report, overwritten,
                   reportWritten, sentinelWritten, posted, commentFailed, upd, cvars>>

\* lines 207-248: one iteration of the loop
Process(contents) ==
    /\ apc = "loop"
    /\ pos <= Len(mapping)
    /\ \E g \in UpdateOutcomes(contents), commentOk \in BOOLEAN :
          LET d == mapping[pos]
              u == llm_update(fs[d], g, required)
              current == IF fs[d].exists THEN fs[d].text ELSE <<>>
              same == Strip(u.content) = Strip(current)
          IN  /\ upd' = u
              /\ IF RelativeToRaises(d)
                 THEN /\ Except("relative_to")
                      /\ UNCHANGED <<fs, pos, anyApplied, report, overwritten, posted,
                                     commentFailed>>
                 ELSE /\ report' = Append(report,
                                       [file |-> d, changed |-> ~same,
                                        summary |-> IF same /\ u.summary = <<>>
                                                    THEN NoChanges ELSE u.summary])
                      /\ pos' = pos + 1
                      /\ fs' = IF ~same /\ mode = "apply"
                               THEN [fs EXCEPT ![d] = File(u.content)] ELSE fs
                      /\ overwritten' = IF ~same /\ mode = "apply"
                                        THEN overwritten \cup {d} ELSE overwritten
                      /\ anyApplied' = (anyApplied \/ (~same /\ mode = "apply"))
                      /\ posted' = IF ~same /\ commentOk THEN posted + 1 ELSE posted
                      /\ commentFailed' = (commentFailed \/ (~same /\ ~commentOk))
                      /\ UNCHANGED <<apc, aExit, failedAt>>
    /\ UNCHANGED <<mode, required, changed, mapping, reportWritten, sentinelWritten, cvars>>

\* lines 250-256
Finish ==
    /\ apc = "loop"
    /\ pos > Len(mapping)
    /\ reportWritten' = TRUE
    /\ sentinelWritten' = anyApplied
    /\ apc' = "exited"
    /\ aExit' = 0
    /\ UNCHANGED <<mode, required, changed, fs, mapping, pos, anyApplied, report,
                   overwritten, failedAt, posted, commentFailed, upd, cvars>>

NextAgents == Start \/ Process(FewTexts \cup {<<>>}) \/ Finish

\* one call of llm_update for the AGENTS.md of the root
Call(contents) ==
    /\ apc = "start"
    /\ \E g \in UpdateOutcomes(contents) : upd' = llm_update(fs["root"], g, required)
    /\ apc' = "exited"
    /\ UNCHANGED <<mode, required, changed, fs, mapping, pos, anyApplied, report,
                   overwritten, reportWritten, sentinelWritten, aExit, failedAt, posted,
                   commentFailed, cvars>>

InitUpdate ==
    /\ mode = "suggest"
    /\ required \in Blocks
    /\ changed = <<"root">>
    /\ \E f \in {NoFile} \cup {File(t) : t \in Texts(MaxText)} :
          fs = [d \in {"sub", "root", "outside"} |-> IF d = "root" THEN f ELSE NoFile]
    /\ InitMain("start")
    /\ IdleChangelog

NextUpdate == Call(Texts(MaxText))

(***************************************************************************)
(* The specifications                                                      *)
(***************************************************************************)
\* the agents pipeline is not running
IdleAgents ==
    /\ mode = "suggest"
    /\ required = <<>>
    /\ changed = <<>>
    /\ fs = [d \in {"sub", "root", "outside"} |-> NoFile]
    /\ InitMain("idle")

InitChangelog ==
    /\ pr \in PRs
    /\ chlog \in {NoFile} \cup {File(d) : d \in Docs(MaxLines)}
    /\ InitRun("start")
    /\ IdleAgents

NextChangelog == Fetch \/ Generate(Outcomes(FewEntries)) \/ Merge \/ Retrigger

\* the pull request of the specification's example: #99 by alice
PR99 ==
    [number |-> 99, author |-> <<"a","l","i","c","e">>,
     title |-> <<"F","i","x">>,
     files |-> << <<"p","a","r","s","e","r","/","a">> >>]

InitFresh ==
    /\ pr \in PRs \cup {PR99}
    /\ chlog \in {NoFile, File(Skeleton)}
    /\ InitRun("start")
    /\ IdleAgents

NextFresh == Fetch \/ Generate(Outcomes(AllEntries)) \/ Merge

InitReads == InitFresh \/ InitAgents

NextReads ==
    \/ Fetch \/ Generate(Outcomes(FewEntries)) \/ Merge
    \/ Start \/ Process(FewTexts \cup {<<>>}) \/ Finish

\* runs and reruns of gen_changelog.py over existing changelogs
SpecChangelog ==
    InitChangelog /\ [][NextChangelog]_vars

\* one run of gen_changelog.py without a changelog, or with the skeleton only
SpecFresh == InitFresh /\ [][NextFresh]_vars

\* one run of update_agents.py
SpecAgents == InitAgents /\ [][NextAgents]_vars

\* llm_update over every content on disk, every block and every proposed content
SpecUpdate == InitUpdate /\ [][NextUpdate]_vars

(***************************************************************************)
(* The changelog as lines, for the properties of the merge                 *)
(***************************************************************************)
RECURSIVE Lines(_)
\* the lines of a text, each with its newline
Lines(text) ==
    IF text = <<>> THEN <<>>
    ELSE LET i == Find(text, <<"\n">>, 1)
         IN  IF i = 0 THEN <<text>>
             ELSE <<SubSeq(text, 1, i)>> \o Lines(SubSeq(text, i + 1, Len(text)))

Heading(category) == H3 \o category \o <<"\n">>
IsH2(line) == StartsAt(line, <<"#", "#", " ">>, 1)
IsBullet(line) == StartsAt(line, <<" ", "-", " ">>, 1)

\* the index of the first "## [Unreleased]" line, 0 without one
FirstUnreleased(L) ==
    LET U == {i \in DOMAIN L : L[i] = UnreleasedLine}
    IN  IF U = {} THEN 0 ELSE Min(U)

\* the indices of the lines of the Unreleased section: after its heading, up to the next "## "
UnreleasedSection(L) ==
    LET u == FirstUnreleased(L)
        next == {j \in DOMAIN L : j > u /\ IsH2(L[j])}
    IN  IF u = 0 THEN {}
        ELSE {i \in DOMAIN L : i > u /\ (next = {} \/ i < Min(next))}

\* the run has ended after a merge into a changelog that did not record the pull request
Merged ==
    /\ pc = "exited"
    /\ exitCode = 0
    /\ genKind # "none"
    /\ ~GuardHit(pre.text, pr.number)

Category == Get(parsed, "category", Changed)

(***************************************************************************)
(* C1  Idempotency of the changelog merge                                  *)
(***************************************************************************)
\* C1, first half: a run for PR N over a changelog that holds the token #N leaves
\* the file exactly as it was, whatever the generator returned.
C1_GuardKeepsDocument ==
    (pc = "exited" /\ pre.exists /\ GuardHit(pre.text, pr.number)) => chlog = pre

\* C1: a changelog that holds the token #N is left exactly as it was, and after any
\* number of runs for PR N the changelog is the document the first run produced.
C1_Idempotent ==
    /\ C1_GuardKeepsDocument
    /\ (pc = "exited" /\ firstDoc.set) => chlog.text = firstDoc.text

\* a second run has ended over a changelog that recorded the pull request
C1_Witness ==
    /\ pc = "exited"
    /\ genKind = "valid"
    /\ pre.exists
    /\ GuardHit(pre.text, pr.number)
    /\ firstDoc.set
    /\ exitCode = 0

(***************************************************************************)
(* C2  Creation of a category under Unreleased                             *)
(***************************************************************************)
\* a merge into a changelog with one "## [Unreleased]" heading whose section has no
\* subsection of the entry's category
C2_Case ==
    /\ Merged
    /\ pre.exists
    /\ LET L == Lines(pre.text)
       IN  /\ Cardinality({i \in DOMAIN L : L[i] = UnreleasedLine}) = 1
           /\ \A i \in UnreleasedSection(L) : L[i] # Heading(Category)

\* C2: such a merge yields the old lines, unchanged and in order, with new lines
\* right after the "## [Unreleased]" line only, and exactly one "### <Category>"
\* heading in the Unreleased section, also when a released version has that heading.
C2_CategoryCreated ==
    C2_Case =>
        LET L == Lines(pre.text)
            M == Lines(chlog.text)
            u == FirstUnreleased(L)
            k == Len(M) - Len(L)
        IN  /\ k > 0
            /\ SubSeq(M, 1, u) = SubSeq(L, 1, u)
            /\ SubSeq(M, u + k + 1, Len(M)) = SubSeq(L, u + 1, Len(L))
            /\ Cardinality({i \in UnreleasedSection(M) : M[i] = Heading(Category)}) = 1

(***************************************************************************)
(* C3  Prepend under an existing category                                  *)
(***************************************************************************)
\* the first "### <Category>" line of the Unreleased section, 0 without one
CategoryLine(L, category) ==
    LET H == {i \in UnreleasedSection(L) : L[i] = Heading(category)}
    IN  IF H = {} THEN 0 ELSE Min(H)

\* a merge into a changelog whose Unreleased section has the category, with bullets
C3_Case ==
    /\ Merged
    /\ pre.exists
    /\ LET L == Lines(pre.text)
           h == CategoryLine(L, Category)
       IN  /\ h > 0
           /\ \E b \in UnreleasedSection(L) : b > h /\ IsBullet(L[b])

\* C3: the bullet block is inserted right after the "### <Category>" line, before
\* every bullet of the section, and nothing else of the document changes.
C3_Prepended ==
    C3_Case =>
        LET L == Lines(pre.text)
            h == CategoryLine(L, Category)
        IN  Lines(chlog.text)
                = SubSeq(L, 1, h) \o Lines(Insertion(parsed)) \o SubSeq(L, h + 1, Len(L))

C3_Witness == C3_Case /\ parsed.breaking /\ genKind = "valid"

(***************************************************************************)
(* C5  The fallback entry                                                  *)
(***************************************************************************)
\* the fallback entry as the claim words it
C5_Entry ==
    [isDict |-> TRUE, has |-> Keys, category |-> Changed,
     summary |-> Take(pr.title, TitleCap), summaryIsStr |-> TRUE, scope |-> scopeGuess,
     breaking |-> FALSE, migration |-> <<>>, references |-> <<>>]

\* C5: whenever the generator fails (it raises, returns no JSON, or returns JSON
\* that is no ChangelogEntry), the run goes on with the fallback entry and does
\* not abort.
C5_FallbackAbsorbs ==
    (pc \in {"generated", "exited"}
        /\ genKind \in {"raise", "notjson", "nonobject", "nonconforming"})
    => /\ entry = C5_Entry
       /\ pc = "exited" => exitCode = 0

(***************************************************************************)
(* C10  No pull request is dropped                                         *)
(***************************************************************************)
\* C10: a run that ends normally leaves a changelog that holds the token #N, and
\* exactly one bullet with it when the changelog did not hold it before.
C10_Recorded ==
    (pc = "exited" /\ exitCode = 0 /\ genKind # "none") =>
        /\ GuardHit(chlog.text, pr.number)
        /\ ~GuardHit(pre.text, pr.number) =>
               LET M == Lines(chlog.text)
               IN  Cardinality({i \in DOMAIN M :
                                   IsBullet(M[i]) /\ GuardHit(M[i], pr.number)}) = 1

\* one run of either script
SpecReads == InitReads /\ [][NextReads]_vars

(***************************************************************************)
(* C4  The block inserted into a fresh changelog                           *)
(***************************************************************************)
\* the bullet line as the claim words it, for entry e of PR n by author a
C4_BulletLine(e, n, a) ==
    LET parts == (IF e.scope # <<>> THEN << <<"[">> \o e.scope \o <<"]">> >> ELSE <<>>)
                     \o (IF e.breaking THEN <<Breaking>> ELSE <<>>)
                     \o (IF e.summary # <<>> THEN <<e.summary>> ELSE <<>>)
        refs == Sorted(Range(e.references) \cup {PrRef(n), AuthorRef(a)})
    IN  <<" ", "-", " ">> \o Join(<<" ">>, parts)
            \o <<" ", "(">> \o Join(<<",", " ">>, refs) \o <<")", "\n">>

C4_MigrationLine(e) ==
    IF e.breaking /\ e.migration # <<>>
    THEN MigrationLead \o e.migration \o <<"\n">> ELSE <<>>

\* a run over no changelog, or the skeleton only, has merged a ChangelogEntry
C4_Case ==
    /\ pc = "exited"
    /\ exitCode = 0
    /\ genKind = "valid"
    /\ pre \in {NoFile, File(Skeleton)}

\* C4 as stated: the changelog holds the heading, one blank line, the bullet line
\* and the migration line.
C4_BlankLineAfterHeading ==
    C4_Case =>
        Contains(chlog.text,
                 Heading(entry.category) \o <<"\n">>
                     \o C4_BulletLine(entry, pr.number, pr.author)
                     \o C4_MigrationLine(entry))

\* C4 as amended: the changelog is the skeleton with, after the blank line under
\* "## [Unreleased]", the heading, at once the bullet line and the migration line,
\* and then one blank line.
C4_InsertedBlock ==
    C4_Case =>
        chlog.text = Skeleton
                         \o Heading(entry.category)
                         \o C4_BulletLine(entry, pr.number, pr.author)
                         \o C4_MigrationLine(entry)
                         \o <<"\n", "\n">>

\* the example: PR 99 by alice, Fixed, scope parser, breaking, references ["#7"]
C4_Witness ==
    /\ C4_Case
    /\ pr.number = 99
    /\ entry.references = <<Ref7>>
    /\ Contains(chlog.text,
                Heading(Fixed)
                    \o <<" ","-"," ","[","p","a","r","s","e","r","]"," ">> \o Breaking
                    \o <<" ","F","i","x"," ","c","r","a","s","h"," ","o","n"," ","e","m","p",
                         "t","y"," ","i","n","p","u","t"," ","(","#","7",","," ","#","9","9",
                         ","," ","@","a","l","i","c","e",")","\n">>
                    \o <<" "," "," ","-"," ","*","*","M","i","g","r","a","t","i","o","n",":",
                         "*","*"," ","C","a","l","l"," ","i","n","i","t","P","a","r","s","e",
                         "r","(",")"," ","b","e","f","o","r","e"," ","u","s","e","\n">>)

(***************************************************************************)
(* C6, C7  The always-include block                                        *)
(***************************************************************************)
\* the stripped always-include block
Block == Strip(required)

CountIn(s, p) == Cardinality(Occurrences(s, p))

\* what C6 says without its count under generator failure
C6_Enforced ==
    /\ Contains(upd.content, Block)
    /\ upd.content # upd.working => ~Contains(upd.working, Block)
    /\ CountIn(upd.working, Block) = 1 => upd.content = upd.working
    /\ upd.raises =>
           IF Contains(upd.current, Block) THEN upd.content = upd.current
           ELSE /\ Take(upd.content, Len(upd.current)) = upd.current
                /\ EndsWith(upd.content, Block \o <<"\n">>)

\* C6 as stated: the document llm_update returns holds the block; the block is
\* appended only when the working text does not hold it; and when the generator
\* fails the result is the content on disk, with the block appended if absent, and
\* holds the block exactly once.
C6_ExactlyOnce ==
    apc = "exited" =>
        /\ C6_Enforced
        /\ (upd.raises /\ Block # <<>>) => CountIn(upd.content, Block) = 1

\* C6 as amended: ... and holds the block at least once, with every copy that the
\* content on disk already held.
C6_AtLeastOnce ==
    apc = "exited" =>
        /\ C6_Enforced
        /\ (upd.raises /\ Block # <<>>) =>
               /\ CountIn(upd.content, Block) >= 1
               /\ CountIn(upd.content, Block) >= CountIn(upd.current, Block)

\* the generator failed over a content on disk without the block
C6_Witness ==
    /\ apc = "exited"
    /\ upd.raises
    /\ Block # <<>>
    /\ upd.current # <<>>
    /\ ~Contains(upd.current, Block)
    /\ upd.content # upd.current

\* C7: an appended block comes after the existing text and exactly one blank line,
\* and is followed by one newline, whether or not the text ends with a newline.
C7_OneBlankLine ==
    (apc = "exited" /\ upd.content # upd.working) =>
        upd.content
            = upd.working
                  \o (IF EndsWith(upd.working, <<"\n">>) THEN <<"\n">> ELSE <<"\n", "\n">>)
                  \o Block \o <<"\n">>

(***************************************************************************)
(* C8  What the agents run writes                                          *)
(***************************************************************************)
\* C8: a document is overwritten in apply mode only, and only with a changed entry
\* in the report; the report has one entry per document, changed iff the merged
\* content differs from the content on disk; and once the run has ended the
\* sentinel is written iff a document was overwritten.
C8_WriteDiscipline ==
    /\ overwritten # {} => mode = "apply"
    /\ \A i \in DOMAIN report :
           /\ report[i].file = mapping[i]
           /\ report[i].file \in overwritten <=> (mode = "apply" /\ report[i].changed)
    /\ (apc = "loop" /\ pos > 1) =>
           report[pos - 1].changed = (Strip(upd.content) # Strip(upd.current))
    /\ reportWritten => Len(report) = Len(mapping)
    /\ apc = "exited" => (sentinelWritten <=> overwritten # {})

(***************************************************************************)
(* C9  Failed reads of the repository host                                 *)
(***************************************************************************)
\* the run of gen_changelog.py ended in its fetch
ChangelogFetchFailed == pc = "exited" /\ genKind = "none"

\* the run of update_agents.py ended in fetch_pr_context
AgentsFetchFailed == apc = "exited" /\ failedAt = "fetch_pr_context"

\* a failed read writes nothing, and a failed comment leaves the exit status alone
C9_NothingWritten ==
    /\ ChangelogFetchFailed => (chlog = pre /\ ~wrote)
    /\ AgentsFetchFailed => (overwritten = {} /\ ~reportWritten /\ ~sentinelWritten)
    /\ (apc = "exited" /\ commentFailed /\ failedAt = "none") => aExit = 0

\* C9 as stated: a failed read ends either script, in either mode, with a non-zero
\* exit status and nothing written; a failed comment never changes the status.
C9_ReadFailureFatal ==
    /\ C9_NothingWritten
    /\ ChangelogFetchFailed => exitCode # 0
    /\ AgentsFetchFailed => aExit # 0

\* C9 as amended: ... with a non-zero exit status in gen_changelog.py and in the
\* apply mode of update_agents.py, and with exit status 0 in its suggest mode.
C9_ReadFailureByMode ==
    /\ C9_NothingWritten
    /\ ChangelogFetchFailed => exitCode # 0
    /\ AgentsFetchFailed => (aExit # 0 <=> mode = "apply")

\* the read failed in suggest mode
C9_Witness == AgentsFetchFailed /\ mode = "suggest"

====
